---- MODULE Spec2Model ----
(***************************************************************************)
(* Lead scoring backend: the sliding-window rate limiter, the provider     *)
(* fallback classifier with its usage tracker and reply parser, and the    *)
(* hybrid scoring engine.                                                  *)
(*                                                                         *)
(* Time is counted in ticks, TicksPerSecond ticks to the second, so that   *)
(* the whole-second truncation of timedelta.seconds is visible.            *)
(***************************************************************************)
EXTENDS Integers, Sequences, FiniteSets, TLC

VARIABLES
    now,        \* the clock (datetime.now()), in ticks
    calls,      \* SmartRateLimiter.calls: provider -> list of timestamps
    pc,         \* task -> position of the task
    tprov,      \* task -> provider of the check_rate_limit call in progress
    tnow,       \* task -> the local `now` of that call
    tsleep,     \* task -> the local sleep_time of that call, in seconds
    admitted,   \* history: provider -> the clock values at which calls returned
    lastCheck,  \* history: what the latest check_rate_limit call saw and did
    nreq,       \* number of single admission requests started so far
    nburst,     \* number of bursts of admissions so far
    nticks,     \* number of single ticks so far
    providers,  \* AIService.providers: the names of the configured providers, in order
    limiterFault, \* the providers for which the injected rate limiter raises
    offer,      \* the offer the leads are scored against
    usage,      \* AIUsageTracker._usage
    ai,         \* task -> the analyze_lead_intent call of the task
    leads,      \* the lead list score_leads is called with
    ai_service, \* ScoringEngine.ai_service: <<>> for None, else what the
                \* successive calls of the injected classifier do, in a cycle
    epc,        \* the position of score_leads
    chunk,      \* the index in leads of the first lead of the current chunk
    batch,      \* the tasks of the current chunk, in the order of their leads
    results,    \* the local `results` of score_leads
    outOfOrder, \* history: a task completed before a task of an earlier lead
    npauses,    \* history: the number of pauses of score_leads so far
    settings,   \* the API keys of the configuration ("" when a key is not set)
    service,    \* the construction of the AIService: state is "unbuilt", "ready" or
                \* "config_error"; gemini and openai tell how the setup of each went
    snap,       \* the dict the latest get_stats call returned, as its holder sees it
    lastOp,     \* history: the latest call on the AIUsageTracker or on a snapshot
    ruleCall,   \* the latest call of a scoring rule: its arguments and what it returned
    remaining   \* the latest get_remaining_calls call and what it returned

limiterVars == <<calls, tprov, tnow, tsleep, admitted, lastCheck>>
budgetVars == <<nreq, nburst, nticks>>
aiVars == <<providers, limiterFault, offer, usage, ai>>
engineVars == <<leads, ai_service, epc, chunk, batch, results, outOfOrder>>
trackerVars == <<snap, lastOp>>
sideVars == <<settings, service, trackerVars, ruleCall, remaining>>
auxVars == <<sideVars, npauses>>

vars == <<now, pc, limiterVars, budgetVars, aiVars, engineVars, auxVars>>

-----------------------------------------------------------------------------
(* Bounds of the model *)

TicksPerSecond == 2
MaxTicks == 2
MaxRequests == 3
MaxBursts == 2
NTasks == 2
MaxLeads == 11
MaxOps == 4
MaxQueries == 1

Tasks == 1..NTasks

-----------------------------------------------------------------------------
(* Python strings: a str is a TLA+ string, read one character at a time *)

Char(s, i) == SubSeq(s, i, i)

\* the slice of s from position i to position j, cut at the end of s
Slice(s, i, j) == IF i > Len(s) \/ j < i THEN "" ELSE SubSeq(s, i, IF j > Len(s) THEN Len(s) ELSE j)

UpperChars == "ABCDEFGHIJKLMNOPQRSTUVWXYZ"
LowerChars == "abcdefghijklmnopqrstuvwxyz"
DigitChars == "0123456789"

\* position of the one-character string c in the string set, 0 when absent
RECURSIVE IndexIn(_, _, _)
IndexIn(c, set, i) ==
    IF i > Len(set) THEN 0
    ELSE IF Char(set, i) = c THEN i
    ELSE IndexIn(c, set, i + 1)

IsUpper(c) == IndexIn(c, UpperChars, 1) # 0
IsLower(c) == IndexIn(c, LowerChars, 1) # 0
IsDigit(c) == IndexIn(c, DigitChars, 1) # 0
IsSpace(c) == c \in {" ", "\n", "\t"}

LowerChar(c) == IF IsUpper(c) THEN Char(LowerChars, IndexIn(c, UpperChars, 1)) ELSE c
UpperChar(c) == IF IsLower(c) THEN Char(UpperChars, IndexIn(c, LowerChars, 1)) ELSE c

\* str.lower()
RECURSIVE Lower(_)
Lower(s) == IF s = "" THEN "" ELSE LowerChar(Head(s)) \o Lower(Tail(s))

\* str.title(): a cased character is upper case after an uncased one, lower case after a cased one
RECURSIVE TitleFrom(_, _)
TitleFrom(s, afterCased) ==
    IF s = "" THEN ""
    ELSE LET c == Head(s)
             cased == IsUpper(c) \/ IsLower(c)
         IN  (IF afterCased THEN LowerChar(c) ELSE UpperChar(c)) \o TitleFrom(Tail(s), cased)

Title(s) == TitleFrom(s, FALSE)

\* str.strip()
RECURSIVE LStrip(_)
LStrip(s) == IF s # "" /\ IsSpace(Head(s)) THEN LStrip(Tail(s)) ELSE s

RECURSIVE RStrip(_)
RStrip(s) == IF s # "" /\ IsSpace(Char(s, Len(s))) THEN RStrip(SubSeq(s, 1, Len(s) - 1)) ELSE s

Strip(s) == RStrip(LStrip(s))

\* str.startswith, str.endswith, the `in` of two strings
StartsWith(s, prefix) == Len(s) >= Len(prefix) /\ SubSeq(s, 1, Len(prefix)) = prefix
EndsWith(s, suffix) == Len(s) >= Len(suffix) /\ SubSeq(s, Len(s) - Len(suffix) + 1, Len(s)) = suffix
Contains(s, sub) == \E i \in 1..(Len(s) - Len(sub) + 1) : SubSeq(s, i, i + Len(sub) - 1) = sub

\* s.find(sub, i): the first position >= i where sub starts in s, 0 when there is none
RECURSIVE Find(_, _, _)
Find(s, sub, i) ==
    IF i + Len(sub) - 1 > Len(s) THEN 0
    ELSE IF SubSeq(s, i, i + Len(sub) - 1) = sub THEN i
    ELSE Find(s, sub, i + 1)

\* s[:n]
Truncate(s, n) == Slice(s, 1, n)

\* sep.join(parts)
RECURSIVE Join(_, _)
Join(parts, sep) ==
    IF Len(parts) = 0 THEN ""
    ELSE IF Len(parts) = 1 THEN parts[1]
    ELSE parts[1] \o sep \o Join(Tail(parts), sep)

-----------------------------------------------------------------------------
(* Python values that are not always a str *)

PyStr(s) == [type |-> "str", val |-> s]
PyInt(digits) == [type |-> "int", val |-> digits]
PyBool(word) == [type |-> "bool", val |-> word]
PyNone == [type |-> "NoneType", val |-> ""]

-----------------------------------------------------------------------------
(* json.loads, for an object whose values are strings, integers, true,     *)
(* false or null (what a reply to the prompt holds); any other text makes  *)
(* it raise.                                                                *)

JsonFail == [ok |-> FALSE, next |-> 0, val |-> PyNone]

RECURSIVE SkipSpace(_, _)
SkipSpace(s, i) == IF i <= Len(s) /\ IsSpace(Char(s, i)) THEN SkipSpace(s, i + 1) ELSE i

\* a string literal starting at the quote at position i
JsonString(s, i) ==
    IF i > Len(s) \/ Char(s, i) # "\"" THEN JsonFail
    ELSE LET close == Find(s, "\"", i + 1)
         IN  IF close = 0 \/ Contains(SubSeq(s, i + 1, close - 1), "\\") THEN JsonFail
             ELSE [ok |-> TRUE, next |-> close + 1, val |-> PyStr(SubSeq(s, i + 1, close - 1))]

RECURSIVE DigitsEnd(_, _)
DigitsEnd(s, i) == IF i <= Len(s) /\ IsDigit(Char(s, i)) THEN DigitsEnd(s, i + 1) ELSE i

JsonValue(s, i) ==
    IF i > Len(s) THEN JsonFail
    ELSE IF Char(s, i) = "\"" THEN JsonString(s, i)
    ELSE IF IsDigit(Char(s, i)) /\ (Char(s, i) # "0" \/ DigitsEnd(s, i) = i + 1)
         THEN [ok |-> TRUE, next |-> DigitsEnd(s, i), val |-> PyInt(SubSeq(s, i, DigitsEnd(s, i) - 1))]
    ELSE IF Slice(s, i, i + 3) = "null" THEN [ok |-> TRUE, next |-> i + 4, val |-> PyNone]
    ELSE IF Slice(s, i, i + 3) = "true" THEN [ok |-> TRUE, next |-> i + 4, val |-> PyBool("True")]
    ELSE IF Slice(s, i, i + 4) = "false" THEN [ok |-> TRUE, next |-> i + 5, val |-> PyBool("False")]
    ELSE JsonFail

\* the members of an object from position i (after "{" or ","), added to the pairs read so far
RECURSIVE JsonMembers(_, _, _)
JsonMembers(s, i, pairs) ==
    LET key == JsonString(s, SkipSpace(s, i))
        colon == IF key.ok THEN SkipSpace(s, key.next) ELSE 0
        value == IF key.ok THEN JsonValue(s, SkipSpace(s, colon + 1)) ELSE JsonFail
        after == IF value.ok THEN SkipSpace(s, value.next) ELSE 0
        read == Append(pairs, <<key.val.val, value.val>>)
    IN  IF ~key.ok \/ colon > Len(s) \/ Char(s, colon) # ":" THEN [ok |-> FALSE, pairs |-> <<>>]
        ELSE IF ~value.ok \/ after > Len(s) THEN [ok |-> FALSE, pairs |-> <<>>]
        ELSE IF Char(s, after) = "," THEN JsonMembers(s, after + 1, read)
        ELSE IF Char(s, after) = "}" /\ SkipSpace(s, after + 1) > Len(s) THEN [ok |-> TRUE, pairs |-> read]
        ELSE [ok |-> FALSE, pairs |-> <<>>]

\* json.loads(content): ok is FALSE when it raises, pairs are the members in order
JsonLoads(s) ==
    LET open == SkipSpace(s, 1)
        first == SkipSpace(s, open + 1)
    IN  IF open > Len(s) \/ Char(s, open) # "{" THEN [ok |-> FALSE, pairs |-> <<>>]
        ELSE IF first <= Len(s) /\ Char(s, first) = "}" /\ SkipSpace(s, first + 1) > Len(s)
             THEN [ok |-> TRUE, pairs |-> <<>>]
        ELSE JsonMembers(s, open + 1, <<>>)

\* data.get(key, default): the last member of that name wins
DictGet(pairs, key, default) ==
    LET hits == {i \in DOMAIN pairs : pairs[i][1] = key}
    IN  IF hits = {} THEN default
        ELSE pairs[CHOOSE i \in hits : \A j \in hits : j <= i][2]

-----------------------------------------------------------------------------
(* SmartRateLimiter *)

Providers == {"gemini", "openai"}

WindowSeconds == 60

Window == WindowSeconds * TicksPerSecond

MaxCalls(provider) == IF provider = "gemini" THEN 10 ELSE 100

\* calls[:] = [call_time for call_time in calls if now - call_time < 1 minute]
Prune(w, t) == SelectSeq(w, LAMBDA c : t - c < Window)

\* (now - calls[0]).seconds: the whole seconds of the difference
Seconds(d) == d \div TicksPerSecond

\* a backoff of one unit more
SleepTimePadded(w, t) == WindowSeconds - Seconds(t - w[1]) + 1

\* sleep_time = 60 - (now - calls[0]).seconds
SleepTime(w, t) == WindowSeconds - Seconds(t - w[1])

WakeAt(t) == tnow[t] + tsleep[t] * TicksPerSecond

Sleepers(p) == {t \in Tasks : pc[t] = "sleeping" /\ tprov[t] = p}

MinOf(S) == CHOOSE x \in S : \A y \in S : x <= y

Range(s) == {s[i] : i \in DOMAIN s}

NoCheck == [provider |-> "none", at |-> 0, count |-> 0, full |-> FALSE,
            sleep |-> 0, first |-> 0, oldest |-> 0, waiting |-> {}]

\* a limiter that keeps one list for all providers
WindowOfShared(provider) == calls["gemini"]

\* calls = self.calls[provider]
WindowOf(provider) == calls[provider]

\* check_rate_limit up to its return or its suspension in asyncio.sleep;
\* ret is the position of the caller after the call has returned.
CheckRateLimit(t, provider, ret) ==
    LET pruned == Prune(WindowOf(provider), now)
        full == Len(pruned) >= MaxCalls(provider)
    IN  /\ tprov' = [tprov EXCEPT ![t] = provider]
        /\ lastCheck' = [provider |-> provider, at |-> now,
                         count |-> Len(pruned), full |-> full,
                         sleep |-> IF full THEN SleepTime(pruned, now) ELSE 0,
                         first |-> IF full THEN pruned[1] ELSE 0,
                         oldest |-> IF full THEN MinOf(Range(pruned)) ELSE 0,
                         waiting |-> {q \in Providers : Sleepers(q) # {}}]
        /\ IF full
           THEN /\ calls' = [calls EXCEPT ![provider] = pruned]
                /\ tnow' = [tnow EXCEPT ![t] = now]
                /\ tsleep' = [tsleep EXCEPT ![t] = SleepTime(pruned, now)]
                /\ pc' = [pc EXCEPT ![t] = "sleeping"]
                /\ UNCHANGED admitted
           ELSE /\ calls' = [calls EXCEPT ![provider] = Append(pruned, now)]
                /\ UNCHANGED <<tnow, tsleep>>
                /\ pc' = [pc EXCEPT ![t] = ret]
                /\ admitted' = [admitted EXCEPT ![provider] = Append(@, now)]

\* the rest of check_rate_limit once asyncio.sleep(sleep_time) is over
ResumeRateLimit(t, ret) ==
    /\ pc[t] = "sleeping"
    /\ now >= WakeAt(t)
    /\ calls' = [calls EXCEPT ![tprov[t]] = Append(@, tnow[t])]
    /\ admitted' = [admitted EXCEPT ![tprov[t]] = Append(@, now)]
    /\ pc' = [pc EXCEPT ![t] = ret]
    /\ tnow' = [tnow EXCEPT ![t] = 0]
    /\ tsleep' = [tsleep EXCEPT ![t] = 0]
    /\ UNCHANGED <<tprov, lastCheck>>

Repeat(n, x) == [i \in 1..n |-> x]

-----------------------------------------------------------------------------
(* Leads and offers *)

Lead(name, role, company, industry, location, bio) ==
    [name |-> name, role |-> role, company |-> company, industry |-> industry,
     location |-> location, linkedin_bio |-> bio]

SampleLeads == <<
    Lead("John CEO", "CEO", "TechCorp", "software", "SF", "Complete bio"),
    Lead("Ava Patel", "Head of Growth", "FlowMetrics", "SaaS", "San Francisco", ""),
    Lead("Sam Lee", "Project Coordinator", "ShopRight", "Retail", "Austin", "Runs store rollouts."),
    Lead("Kim Roe", "Marketing Manager", "AgriCo", "agriculture", "Leeds", "") >>

SampleOffers == <<
    [name |-> "Test Product", value_props |-> <<"value1", "value2">>,
     ideal_use_cases |-> <<"software", "technology">>],
    [name |-> "AI Outreach Automation", value_props |-> <<"24/7 automated outreach">>,
     ideal_use_cases |-> <<"B2B SaaS companies", "Mid-market technology companies", "fintech">>] >>

-----------------------------------------------------------------------------
(* AIUsageTracker *)

NoUsage ==
    [gemini |-> [calls |-> 0, tokens |-> 0],
     openai |-> [calls |-> 0, tokens |-> 0, estimated_cost |-> 0],
     failures |-> 0]

\* (input_tokens * 0.00000015) + (output_tokens * 0.0000006), in units of 0.00000001
CostOf(input_tokens, output_tokens) == input_tokens * 15 + output_tokens * 60

\* a log_usage that counts the tokens but not the call
LogUsageNoCall(u, provider, input_tokens, output_tokens) ==
    LET counted == [u EXCEPT ![provider].tokens = @ + input_tokens + output_tokens]
    IN  IF provider = "openai"
        THEN [counted EXCEPT !.openai.estimated_cost = @ + CostOf(input_tokens, output_tokens)]
        ELSE counted

\* a log_usage that counts the input tokens alone
LogUsageInputOnly(u, provider, input_tokens, output_tokens) ==
    LET counted == [u EXCEPT ![provider].calls = @ + 1,
                             ![provider].tokens = @ + input_tokens]
    IN  IF provider = "openai"
        THEN [counted EXCEPT !.openai.estimated_cost = @ + CostOf(input_tokens, output_tokens)]
        ELSE counted

LogUsage(u, provider, input_tokens, output_tokens) ==
    LET counted == [u EXCEPT ![provider].calls = @ + 1,
                             ![provider].tokens = @ + input_tokens + output_tokens]
    IN  IF provider = "openai"
        THEN [counted EXCEPT !.openai.estimated_cost = @ + CostOf(input_tokens, output_tokens)]
        ELSE counted

\* a log_failure that counts nothing
LogFailureLost(u) == u

LogFailure(u) == [u EXCEPT !.failures = @ + 1]

-----------------------------------------------------------------------------
(* AIService *)

BioLimit == 200
UseCaseLimit == 2

BuildAnalysisPrompt(lead, off) ==
    "Analyze buying intent: High/Medium/Low\n\nProduct: " \o off.name
    \o "\nUse cases: " \o Join(SubSeq(off.ideal_use_cases, 1,
            IF Len(off.ideal_use_cases) > UseCaseLimit THEN UseCaseLimit ELSE Len(off.ideal_use_cases)), ", ")
    \o "\n\nProspect: " \o lead.name \o ", " \o lead.role \o " at " \o lead.company
    \o "\nIndustry: " \o lead.industry
    \o "\nBio: " \o Truncate(lead.linkedin_bio, BioLimit)
    \o "\n\nJSON only: {\"intent\": \"High|Medium|Low\", \"reasoning\": \"Brief explanation\"}"

Intents == {"high", "medium", "low"}

\* _parse_text_response
ParseTextResponse(content) ==
    LET content_lower == Lower(content)
        dot == Find(content, ".", 1)
        first == IF dot = 0 THEN content ELSE Slice(content, 1, dot - 1)
    IN  [intent |-> IF Contains(content_lower, "high") THEN "high"
                    ELSE IF Contains(content_lower, "medium") THEN "medium"
                    ELSE "low",
         reasoning |-> PyStr(Strip(first))]

ParseFailed == [intent |-> "low", reasoning |-> PyStr("Failed to parse AI analysis")]

\* if intent not in ['high', 'medium', 'low']: intent = 'low'
ValidIntent(r) == IF r.intent \in Intents THEN r ELSE [r EXCEPT !.intent = "low"]

\* _parse_ai_response
ParseAIResponse(content) ==
    IF StartsWith(Strip(content), "{") /\ EndsWith(Strip(content), "}")
    THEN LET data == JsonLoads(content)
             intent == DictGet(data.pairs, "intent", PyStr("Low"))
             reasoning == DictGet(data.pairs, "reasoning", PyStr("Analysis completed"))
         IN  IF ~data.ok THEN ParseFailed              \* json.loads raises
             ELSE IF intent.type # "str" THEN ParseFailed  \* .lower() raises
             ELSE ValidIntent([intent |-> Lower(intent.val), reasoning |-> reasoning])
    ELSE ValidIntent(ParseTextResponse(content))

Fallback == [intent |-> "low", reasoning |-> PyStr("AI services unavailable - conservative scoring applied")]

\* the classes an `except Exception` clause catches, among those of the model
ExceptionClasses == {"AIServiceException", "TimeoutError", "ConnectionError",
                     "AuthenticationError", "ValueError", "RuntimeError"}

\* an except clause for AIServiceException alone
CaughtServiceOnly(exc) == exc = "AIServiceException"

\* except Exception as e (analyze_lead_intent)
Caught(exc) == exc \in ExceptionClasses

\* _analyze_with_provider: except asyncio.TimeoutError / except Exception -> raise AIServiceException
Wrapped(exc) == IF exc = "TimeoutError" \/ exc \in ExceptionClasses THEN "AIServiceException" ELSE exc

\* what the injected rate limiter raises for a provider of limiterFault
LimiterError == "RuntimeError"

\* the ways a provider call fails: timeout, transport, authentication, a reply without text
ProviderFailures == {"TimeoutError", "ConnectionError", "AuthenticationError", "ValueError"}

\* the texts a provider may reply
Replies == {
    "{\"intent\": \"High\", \"reasoning\": \"Decision maker in the target industry\"}",
    " {\"intent\": \"medium\", \"reasoning\": \"\"} ",
    "{\"intent\": \"Urgent\", \"reasoning\": \"Very keen\"}",
    "{\"intent\": \"High\"}",
    "{\"intent\": 5, \"reasoning\": null}",
    "{intent: high}",
    "Intent is HIGH. The lead is a CEO.",
    "Probably medium interest",
    "",
    ". The highlight is low" }

\* content = response.text.strip(), then _parse_ai_response(content), for every reply
ParsedReply == [content \in Replies |-> ParseAIResponse(Strip(content))]

\* len(content) of every reply
ReplyLength == [content \in Replies |-> Len(Strip(content))]

\* the lead of task t: the tasks of a batch score its leads in order
LeadOf(t) == SampleLeads[((t - 1) % Len(SampleLeads)) + 1]

\* len(prompt) for every lead and offer
PromptLength == [lead \in Range(SampleLeads), off \in Range(SampleOffers) |-> Len(BuildAnalysisPrompt(lead, off))]

NoCall == [idx |-> 0, started |-> <<>>, attempts |-> <<>>,
           result |-> [intent |-> "", reasoning |-> PyNone], raised |-> ""]

ProviderNames(i, j) == [k \in 1..(j - i + 1) |-> providers[i + k - 1]]

\* the first provider from position k on whose admission does not raise
RECURSIVE NextAdmitted(_)
NextAdmitted(k) ==
    IF k > Len(providers) \/ providers[k] \notin limiterFault THEN k ELSE NextAdmitted(k + 1)

\* the loop of analyze_lead_intent from provider k on, call being the call so
\* far: up to the await of the provider, a suspension in the rate limiter,
\* the return of the fallback, or an exception that leaves the call
Advance(t, k, call) ==
    IF k <= Len(providers) /\ providers[k] \in limiterFault /\ ~Caught(LimiterError)
    THEN /\ ai' = [ai EXCEPT ![t] = [call EXCEPT !.idx = k, !.started = Append(@, providers[k]),
                                                 !.raised = LimiterError]]
         /\ pc' = [pc EXCEPT ![t] = "raised"]
         /\ UNCHANGED <<limiterVars, usage>>
    ELSE LET k2 == NextAdmitted(k)
             last == IF k2 > Len(providers) THEN Len(providers) ELSE k2
             tried == [call EXCEPT
                         !.idx = k2,
                         !.started = @ \o ProviderNames(k, last),
                         !.attempts = @ \o [i \in 1..(k2 - k) |->
                                               [provider |-> providers[k + i - 1], outcome |-> "failed", reply |-> ""]]]
         IN  IF k2 > Len(providers)
             THEN /\ usage' = LogFailure(usage)
                  /\ ai' = [ai EXCEPT ![t] = [tried EXCEPT !.result = Fallback]]
                  /\ pc' = [pc EXCEPT ![t] = "done"]
                  /\ UNCHANGED limiterVars
             ELSE /\ CheckRateLimit(t, providers[k2], "calling")
                  /\ ai' = [ai EXCEPT ![t] = tried]
                  /\ UNCHANGED usage

\* analyze_lead_intent(lead, offer) is called
StartAnalyze(t) ==
    /\ service.state = "ready"
    /\ pc[t] = "idle"
    /\ Advance(t, 1, NoCall)
    /\ UNCHANGED <<now, engineVars, auxVars, budgetVars, providers, limiterFault, offer>>

\* the backoff of the rate limiter is over: the provider is called
ResumeAnalyze(t) ==
    /\ ResumeRateLimit(t, "calling")
    /\ UNCHANGED <<now, engineVars, auxVars, budgetVars, aiVars>>

\* a loop that goes on to the next provider after a reply
ProviderRepliesNoReturn(t, content) ==
    /\ pc[t] = "calling"
    /\ Advance(t, ai[t].idx + 1,
               [ai[t] EXCEPT !.attempts = Append(@, [provider |-> providers[ai[t].idx],
                                                     outcome |-> "ok", reply |-> content]),
                             !.result = ParsedReply[content]])
    /\ UNCHANGED <<now, engineVars, auxVars, budgetVars, providers, limiterFault, offer>>

\* the provider replies with the text content: parse, log the usage, return
ProviderReplies(t, content) ==
    LET provider == providers[ai[t].idx]
    IN  /\ pc[t] = "calling"
        /\ usage' = LogUsage(usage, provider, PromptLength[LeadOf(t), offer], ReplyLength[content])
        /\ ai' = [ai EXCEPT ![t].attempts = Append(@, [provider |-> provider, outcome |-> "ok", reply |-> content]),
                            ![t].result = ParsedReply[content]]
        /\ pc' = [pc EXCEPT ![t] = "done"]
        /\ UNCHANGED <<now, engineVars, auxVars, limiterVars, budgetVars, providers, limiterFault, offer>>

\* the provider call fails with exc: the next provider, or the fallback
ProviderFails(t, exc) ==
    LET failed == [ai[t] EXCEPT !.attempts = Append(@, [provider |-> providers[ai[t].idx], outcome |-> "failed", reply |-> ""])]
    IN  /\ pc[t] = "calling"
        /\ IF Caught(Wrapped(exc))
           THEN Advance(t, ai[t].idx + 1, failed)
           ELSE /\ ai' = [ai EXCEPT ![t] = [failed EXCEPT !.raised = Wrapped(exc)]]
                /\ pc' = [pc EXCEPT ![t] = "raised"]
                /\ UNCHANGED <<limiterVars, usage>>
        /\ UNCHANGED <<now, engineVars, auxVars, budgetVars, providers, limiterFault, offer>>

-----------------------------------------------------------------------------
(* ScoringConstants, JobRoleCategories, IndustryMappings *)

MAX_RULE_SCORE == 50
DECISION_MAKER_POINTS == 20
INFLUENCER_POINTS == 10
OTHER_ROLE_POINTS == 0
EXACT_INDUSTRY_POINTS == 20
ADJACENT_INDUSTRY_POINTS == 10
OTHER_INDUSTRY_POINTS == 0
COMPLETE_DATA_POINTS == 10

\* AI_INTENT_SCORES.get(key, 10)
AI_INTENT_SCORES(key) ==
    CASE key = "high" -> 50
      [] key = "medium" -> 30
      [] key = "low" -> 10
      [] OTHER -> 10

DECISION_MAKERS == {"ceo", "cto", "cfo", "coo", "founder", "co-founder", "president", "vp",
                    "vice president", "director", "head of", "chief", "owner", "partner"}

INFLUENCERS == {"manager", "lead", "senior", "principal", "supervisor", "coordinator",
                "team lead", "specialist"}

SAAS_RELATED == {"software", "saas", "technology", "tech", "it", "information technology",
                 "software development"}

FINTECH_RELATED == {"fintech", "financial services", "banking", "finance", "payments",
                    "cryptocurrency", "blockchain"}

ECOMMERCE_RELATED == {"ecommerce", "e-commerce", "retail", "marketplace", "online retail",
                      "shopping"}

\* the members of the IntentLevel enum
IntentLevel == {"High", "Medium", "Low"}

-----------------------------------------------------------------------------
(* ScoringEngine: the rule score *)

Min(a, b) == IF a < b THEN a ELSE b

\* a role score that looks for the influencer keywords first
ScoreRoleInfluencerFirst(role) ==
    LET role_lower == Lower(role)
    IN  IF \E influencer_role \in INFLUENCERS : Contains(role_lower, influencer_role)
        THEN INFLUENCER_POINTS
        ELSE IF \E decision_role \in DECISION_MAKERS : Contains(role_lower, decision_role)
             THEN DECISION_MAKER_POINTS
             ELSE OTHER_ROLE_POINTS

\* _score_role
ScoreRole(role) ==
    LET role_lower == Lower(role)
    IN  IF \E decision_role \in DECISION_MAKERS : Contains(role_lower, decision_role)
        THEN DECISION_MAKER_POINTS
        ELSE IF \E influencer_role \in INFLUENCERS : Contains(role_lower, influencer_role)
             THEN INFLUENCER_POINTS
             ELSE OTHER_ROLE_POINTS

\* _industries_related
IndustriesRelated(lead_industry, target_industry) ==
    \E group \in {SAAS_RELATED, FINTECH_RELATED, ECOMMERCE_RELATED} :
        /\ \E term \in group : Contains(lead_industry, term)
        /\ \E term \in group : Contains(target_industry, term)

\* _score_industry
ScoreIndustry(lead_industry, target_industries) ==
    LET lead_industry_lower == Lower(lead_industry)
        target_industries_lower == [i \in DOMAIN target_industries |-> Lower(target_industries[i])]
    IN  IF lead_industry_lower \in Range(target_industries_lower)
        THEN EXACT_INDUSTRY_POINTS
        ELSE IF \E i \in DOMAIN target_industries_lower :
                    IndustriesRelated(lead_industry_lower, target_industries_lower[i])
             THEN ADJACENT_INDUSTRY_POINTS
             ELSE OTHER_INDUSTRY_POINTS

\* a completeness score that takes a field of blanks for data
ScoreCompletenessUntrimmed(lead) ==
    LET required_fields == <<lead.name, lead.role, lead.company,
                             lead.industry, lead.location, lead.linkedin_bio>>
    IN  IF \A i \in DOMAIN required_fields : required_fields[i] # ""
        THEN COMPLETE_DATA_POINTS
        ELSE 0

\* _score_completeness
ScoreCompleteness(lead) ==
    LET required_fields == <<lead.name, lead.role, lead.company,
                             lead.industry, lead.location, lead.linkedin_bio>>
    IN  IF \A i \in DOMAIN required_fields :
               required_fields[i] # "" /\ Strip(required_fields[i]) # ""
        THEN COMPLETE_DATA_POINTS
        ELSE 0

\* a rule score that leaves the completeness score out of the sum
CalculateRuleScoreTwoParts(lead, off) ==
    LET role_score == ScoreRole(lead.role)
        industry_score == ScoreIndustry(lead.industry, off.ideal_use_cases)
        completeness_score == ScoreCompleteness(lead)
        score == role_score + industry_score
    IN  [score |-> Min(score, MAX_RULE_SCORE),
         breakdown |-> Join(<<"Role: " \o ToString(role_score) \o "pts",
                              "Industry: " \o ToString(industry_score) \o "pts",
                              "Completeness: " \o ToString(completeness_score) \o "pts">>, " | ")]

\* _calculate_rule_score: the capped score and the breakdown text
CalculateRuleScore(lead, off) ==
    LET role_score == ScoreRole(lead.role)
        industry_score == ScoreIndustry(lead.industry, off.ideal_use_cases)
        completeness_score == ScoreCompleteness(lead)
        score == role_score + industry_score + completeness_score
    IN  [score |-> Min(score, MAX_RULE_SCORE),
         breakdown |-> Join(<<"Role: " \o ToString(role_score) \o "pts",
                              "Industry: " \o ToString(industry_score) \o "pts",
                              "Completeness: " \o ToString(completeness_score) \o "pts">>, " | ")]

-----------------------------------------------------------------------------
(* ScoringEngine: the AI score and the result of one lead *)

\* what the call of the injected classifier does: it returns a pair or raises
Returns(intent, reasoning) == [kind |-> "return", intent |-> intent, reasoning |-> reasoning, exc |-> ""]
Raises(exc) == [kind |-> "raise", intent |-> "", reasoning |-> "", exc |-> exc]
\* no classifier is injected (ai_service is None)
NoClassifier == [kind |-> "none", intent |-> "", reasoning |-> "", exc |-> ""]

\* the conservative AI score
FallbackPoints == 10

\* an except clause that catches nothing
EngineCaughtNothing(exc) == FALSE

\* except Exception as e (_calculate_ai_score)
EngineCaught(exc) == exc \in ExceptionClasses

\* _calculate_ai_score, given what the classifier does
CalculateAIScore(outcome) ==
    CASE outcome.kind = "none" ->
            [raised |-> "", score |-> FallbackPoints, intent |-> "low",
             reasoning |-> "AI service unavailable - conservative scoring applied"]
      [] outcome.kind = "return" ->
            [raised |-> "", score |-> AI_INTENT_SCORES(Lower(outcome.intent)),
             intent |-> outcome.intent, reasoning |-> outcome.reasoning]
      [] outcome.kind = "raise" /\ EngineCaught(outcome.exc) ->
            [raised |-> "", score |-> FallbackPoints, intent |-> "low",
             reasoning |-> "AI analysis failed - conservative scoring applied"]
      [] OTHER ->
            [raised |-> outcome.exc, score |-> 0, intent |-> "", reasoning |-> ""]

\* a total that counts the AI score twice
TotalScoreDouble(rule_score, ai_score) == Min(rule_score + 2 * ai_score, 100)

\* total_score = min(rule_score + ai_score, 100)
TotalScore(rule_score, ai_score) == Min(rule_score + ai_score, 100)

NoResult == [name |-> "", role |-> "", company |-> "", intent |-> "", score |-> 0, reasoning |-> ""]

\* score_single_lead, given what the classifier does: the task of the lead
\* ends with a LeadScoringResult or with an exception (IntentLevel(...) raises
\* ValueError for a value outside the enum, LeadScoringResult(...) raises
\* ValidationError for a score outside 0..100)
ScoreSingleLead(lead, off, outcome) ==
    LET rule == CalculateRuleScore(lead, off)
        aiscore == CalculateAIScore(outcome)
        total_score == TotalScore(rule.score, aiscore.score)
        level == Title(aiscore.intent)
        failed(exc) == [state |-> "raised", exc |-> exc, rule |-> rule.score,
                        ai |-> aiscore.score, result |-> NoResult]
    IN  IF aiscore.raised # "" THEN failed(aiscore.raised)
        ELSE IF level \notin IntentLevel THEN failed("ValueError")
        ELSE IF total_score < 0 \/ total_score > 100 THEN failed("ValidationError")
        ELSE [state |-> "done", exc |-> "", rule |-> rule.score, ai |-> aiscore.score,
              result |-> [name |-> lead.name, role |-> lead.role, company |-> lead.company,
                          intent |-> level, score |-> total_score,
                          reasoning |-> "Rule: " \o rule.breakdown \o ". AI: " \o aiscore.reasoning]]

\* the behaviours of the injected classifier: what its successive calls do, in a cycle
ClassifierPlans == {
    <<Returns("high", "Strong fit for the offer"), Raises("AIServiceException"),
      Returns("Medium", "Some fit"), Returns("LOW", "Weak fit"), Raises("RuntimeError")>>,
    <<Raises("TimeoutError")>>,
    <<Returns("HIGH", "Decision maker in the target industry"), Returns("urgent", "Wants it now")>> }

ClassifierOutcomes == UNION {Range(plan) : plan \in ClassifierPlans} \cup {NoClassifier}

\* score_single_lead for the leads, offers and classifier outcomes of the model
Scored ==
    [lead \in Range(SampleLeads), off \in Range(SampleOffers), outcome \in ClassifierOutcomes |->
        ScoreSingleLead(lead, off, outcome)]

-----------------------------------------------------------------------------
(* Values of the history variables before any call *)

NoSnapshot == [taken |-> FALSE, shared |-> FALSE, own |-> NoUsage, expect |-> NoUsage]

NoOp == [op |-> "none", provider |-> "none", input_tokens |-> 0, output_tokens |-> 0,
         before |-> NoUsage, n |-> 0]

NoRuleCall == [fn |-> "none", lead |-> Lead("", "", "", "", "", ""), targets |-> <<>>,
               score |-> 0, breakdown |-> ""]

NoQuery == [provider |-> "none", at |-> 0, value |-> 0, window |-> <<>>, n |-> 0]

-----------------------------------------------------------------------------
(* ScoringEngine: score_leads *)

batch_size == 10

\* what the classifier does for the i-th lead of the list
OutcomeOf(i) ==
    IF ai_service = <<>> THEN NoClassifier
    ELSE ai_service[((i - 1) % Len(ai_service)) + 1]

\* the task of the i-th lead, suspended in the call of the classifier
Awaiting(i) == [state |-> "awaiting", exc |-> "", rule |-> Scored[leads[i], offer, OutcomeOf(i)].rule,
                ai |-> 0, result |-> NoResult]

\* the iteration of the loop of score_leads for the chunk that starts at
\* lead i: _score_batch creates the tasks of leads[i:i + batch_size], and each
\* runs up to the call of the classifier, or to its end when there is none
StartBatch(i) ==
    LET last == Min(i + batch_size - 1, Len(leads))
    IN  /\ chunk' = i
        /\ batch' = [k \in 1..(last - i + 1) |->
                        IF ai_service = <<>>
                        THEN Scored[leads[i + k - 1], offer, NoClassifier]
                        ELSE Awaiting(i + k - 1)]
        /\ epc' = "gathering"

\* score_leads(leads, offer) is called
ScoreLeads ==
    /\ epc = "idle"
    /\ IF Len(leads) = 0
       THEN /\ epc' = "returned"
            /\ UNCHANGED <<chunk, batch>>
       ELSE StartBatch(1)
    /\ UNCHANGED <<leads, ai_service, results, outOfOrder, npauses>>
    /\ UNCHANGED <<now, pc, limiterVars, budgetVars, aiVars, sideVars>>

\* the classifier call of the k-th task of the chunk ends, and the task with it
TaskCompletes(k) ==
    /\ epc = "gathering"
    /\ k \in DOMAIN batch
    /\ batch[k].state = "awaiting"
    /\ batch' = [batch EXCEPT ![k] = Scored[leads[chunk + k - 1], offer, OutcomeOf(chunk + k - 1)]]
    /\ outOfOrder' = (outOfOrder \/ \E j \in 1..(k - 1) : batch[j].state = "awaiting")
    /\ UNCHANGED <<leads, ai_service, epc, chunk, results, npauses>>
    /\ UNCHANGED <<now, pc, limiterVars, budgetVars, aiVars, sideVars>>

\* a gather that lists the results last task first
GatherReversed(tasks) == [k \in DOMAIN tasks |-> tasks[Len(tasks) + 1 - k].result]

\* asyncio.gather(*tasks): the results in the order of the tasks
Gather(tasks) == [k \in DOMAIN tasks |-> tasks[k].result]

\* a test that also holds when the chunk ends the list
MoreLeadsInclusive(i) == i - 1 + batch_size <= Len(leads)

\* if i + batch_size < len(leads), for the chunk that starts at lead i
MoreLeads(i) == i - 1 + batch_size < Len(leads)

\* every task of the chunk is done: gather returns, the results are appended,
\* and score_leads pauses before the next chunk or returns
GatherReturns ==
    /\ epc = "gathering"
    /\ \A k \in DOMAIN batch : batch[k].state = "done"
    /\ results' = results \o Gather(batch)
    /\ epc' = IF MoreLeads(chunk) THEN "pausing" ELSE "returned"
    /\ npauses' = IF MoreLeads(chunk) THEN npauses + 1 ELSE npauses
    /\ UNCHANGED <<leads, ai_service, chunk, batch, outOfOrder>>
    /\ UNCHANGED <<now, pc, limiterVars, budgetVars, aiVars, sideVars>>

\* a task of the chunk raised: gather raises, and score_leads with it
GatherRaises ==
    /\ epc = "gathering"
    /\ \E k \in DOMAIN batch : batch[k].state = "raised"
    /\ epc' = "raised"
    /\ UNCHANGED <<leads, ai_service, chunk, batch, results, outOfOrder, npauses>>
    /\ UNCHANGED <<now, pc, limiterVars, budgetVars, aiVars, sideVars>>

\* asyncio.sleep(0.1) is over: the next chunk
PauseOver ==
    /\ epc = "pausing"
    /\ StartBatch(chunk + batch_size)
    /\ UNCHANGED <<leads, ai_service, results, outOfOrder, npauses>>
    /\ UNCHANGED <<now, pc, limiterVars, budgetVars, aiVars, sideVars>>

\* the parts of the program a specification does not exercise, at rest
InitSide ==
    /\ settings = [gemini_api_key |-> "gemini-key", openai_api_key |-> "openai-key"]
    /\ service = [state |-> "ready", gemini |-> "ok", openai |-> "ok"]
    /\ snap = NoSnapshot
    /\ lastOp = NoOp
    /\ ruleCall = NoRuleCall
    /\ remaining = NoQuery

\* ScoringEngine(), before score_leads is called
InitIdleEngine ==
    /\ npauses = 0
    /\ leads = <<>>
    /\ ai_service = <<>>
    /\ epc = "idle"
    /\ chunk = 1
    /\ batch = <<>>
    /\ results = <<>>
    /\ outOfOrder = FALSE

-----------------------------------------------------------------------------
(* The rate limiter under arbitrary callers *)

Request(t, provider) ==
    /\ pc[t] = "idle"
    /\ \A u \in Tasks : pc[u] = "idle" => t <= u
    /\ nreq < MaxRequests
    /\ nreq' = nreq + 1
    /\ CheckRateLimit(t, provider, "idle")
    /\ UNCHANGED <<now, engineVars, auxVars, nburst, nticks, aiVars>>

Resume(t) ==
    /\ ResumeRateLimit(t, "idle")
    /\ UNCHANGED <<now, engineVars, auxVars, budgetVars, aiVars>>

\* k calls of check_rate_limit at one instant by k tasks, none of which
\* finds the window full: no await separates them, so they are one step.
Burst(provider, k) ==
    LET pruned == Prune(calls[provider], now)
    IN  /\ nburst < MaxBursts
        /\ k >= 2
        /\ Len(pruned) + k <= MaxCalls(provider)
        /\ calls' = [calls EXCEPT ![provider] = pruned \o Repeat(k, now)]
        /\ admitted' = [admitted EXCEPT ![provider] = @ \o Repeat(k, now)]
        /\ nburst' = nburst + 1
        /\ UNCHANGED <<now, engineVars, auxVars, pc, tprov, tnow, tsleep, lastCheck, nreq, nticks, aiVars>>

BurstSizes(provider) == {MaxCalls(provider) - 2, MaxCalls(provider)}

\* time passes by one tick
Tick ==
    /\ nticks < MaxTicks
    /\ \A t \in Tasks : pc[t] = "sleeping" => now < WakeAt(t)
    /\ now' = now + 1
    /\ nticks' = nticks + 1
    /\ UNCHANGED <<pc, engineVars, auxVars, limiterVars, nreq, nburst, aiVars>>

\* time passes until the earliest pending asyncio.sleep is over
TimerFires ==
    LET due == {WakeAt(t) : t \in {u \in Tasks : pc[u] = "sleeping"}}
    IN  /\ due # {}
        /\ MinOf(due) > now
        /\ now' = MinOf(due)
        /\ UNCHANGED <<pc, engineVars, auxVars, limiterVars, budgetVars, aiVars>>

\* SmartRateLimiter(), and no task started
InitLimiter ==
    /\ now = 0
    /\ calls = [p \in Providers |-> <<>>]
    /\ pc = [t \in Tasks |-> "idle"]
    /\ tprov = [t \in Tasks |-> "gemini"]
    /\ tnow = [t \in Tasks |-> 0]
    /\ tsleep = [t \in Tasks |-> 0]
    /\ admitted = [p \in Providers |-> <<>>]
    /\ lastCheck = NoCheck
    /\ nreq = 0
    /\ nburst = 0
    /\ nticks = 0

InitRL ==
    /\ InitLimiter
    /\ InitSide
    /\ InitIdleEngine
    /\ providers = <<"gemini", "openai">>
    /\ limiterFault = {}
    /\ offer = SampleOffers[1]
    /\ usage = NoUsage
    /\ ai = [t \in Tasks |-> NoCall]

NextRL ==
    \/ \E t \in Tasks, p \in Providers : Request(t, p)
    \/ \E t \in Tasks : Resume(t)
    \/ \E p \in Providers : \E k \in BurstSizes(p) : Burst(p, k)
    \/ Tick
    \/ TimerFires

SpecRL == InitRL /\ [][NextRL]_vars

-----------------------------------------------------------------------------
(* The rate limiter with its monitoring query *)

Max(a, b) == IF a > b THEN a ELSE b

\* a count that takes every recorded call for a recent one
RemainingCallsUnpruned(provider) ==
    Max(0, MaxCalls(provider) - Len(calls[provider]))

\* get_remaining_calls(provider), at the time now
RemainingCalls(provider) ==
    LET recent_calls == SelectSeq(calls[provider], LAMBDA c : now - c < Window)
    IN  Max(0, MaxCalls(provider) - Len(recent_calls))

\* get_remaining_calls(provider) is called; the window it read and the number
\* of queries so far are kept as history
QueryRemaining(provider) ==
    /\ remaining.n < MaxQueries
    /\ remaining' = [provider |-> provider, at |-> now, value |-> RemainingCalls(provider),
                     window |-> calls[provider], n |-> remaining.n + 1]
    /\ UNCHANGED <<now, pc, limiterVars, budgetVars, aiVars, engineVars, npauses>>
    /\ UNCHANGED <<settings, service, trackerVars, ruleCall>>

InitQuery == InitRL

NextQuery ==
    \/ \E t \in Tasks, p \in Providers : Request(t, p)
    \/ \E t \in Tasks : Resume(t)
    \/ \E p \in Providers : \E k \in BurstSizes(p) : Burst(p, k)
    \/ Tick
    \/ TimerFires
    \/ \E p \in Providers : QueryRemaining(p)

SpecQuery == InitQuery /\ [][NextQuery]_vars

-----------------------------------------------------------------------------
(* The classifier: concurrent analyze_lead_intent calls *)

\* a setup whose failure is not caught by the list it builds
SetupProvidersUnguarded(gemini_key, gemini_ok, openai_key, openai_ok) ==
    (IF gemini_key THEN <<"gemini">> ELSE <<>>)
    \o (IF openai_key THEN <<"openai">> ELSE <<>>)

\* _setup_providers: the providers list, given which API keys are set and which setups succeed
SetupProviders(gemini_key, gemini_ok, openai_key, openai_ok) ==
    (IF gemini_key /\ gemini_ok THEN <<"gemini">> ELSE <<>>)
    \o (IF openai_key /\ openai_ok THEN <<"openai">> ELSE <<>>)

\* the provider lists AIService() is constructed with (it raises when the list is empty)
ProviderConfigs ==
    {SetupProviders(gk, go, ok, oo) : gk \in BOOLEAN, go \in BOOLEAN, ok \in BOOLEAN, oo \in BOOLEAN}
    \ {<<>>}

\* how the setup of one provider went
SetupOutcome(key, ok) == IF key = "" THEN "skipped" ELSE IF ok THEN "ok" ELSE "failed"

\* AIService(): __init__ and _setup_providers; gemini_ok and openai_ok tell whether the
\* client library accepts the key (used only when the key is set)
Construct(gemini_ok, openai_ok) ==
    /\ service.state = "unbuilt"
    /\ providers' = SetupProviders(settings.gemini_api_key # "", gemini_ok,
                                   settings.openai_api_key # "", openai_ok)
    /\ service' = [state  |-> IF providers' = <<>> THEN "config_error" ELSE "ready",
                   gemini |-> SetupOutcome(settings.gemini_api_key, gemini_ok),
                   openai |-> SetupOutcome(settings.openai_api_key, openai_ok)]
    /\ UNCHANGED <<now, pc, limiterVars, budgetVars, engineVars, npauses>>
    /\ UNCHANGED <<limiterFault, offer, usage, ai>>
    /\ UNCHANGED <<settings, trackerVars, ruleCall, remaining>>

\* the keys the configuration may hold
KeySettings ==
    [gemini_api_key : {"", "gemini-key"}, openai_api_key : {"", "openai-key"}]

InitAI ==
    /\ InitLimiter
    /\ InitIdleEngine
    /\ settings \in KeySettings
    /\ service = [state |-> "unbuilt", gemini |-> "skipped", openai |-> "skipped"]
    /\ snap = NoSnapshot
    /\ lastOp = NoOp
    /\ ruleCall = NoRuleCall
    /\ remaining = NoQuery
    /\ providers = <<>>
    /\ limiterFault \in {{}, {"gemini"}, Providers}
    /\ offer \in Range(SampleOffers)
    /\ usage = NoUsage
    /\ ai = [t \in Tasks |-> NoCall]

NextAI ==
    \/ \E gemini_ok \in BOOLEAN : \E openai_ok \in BOOLEAN : Construct(gemini_ok, openai_ok)
    \/ \E t \in Tasks : StartAnalyze(t)
    \/ \E t \in Tasks : ResumeAnalyze(t)
    \/ \E t \in Tasks : \E content \in Replies : ProviderReplies(t, content)
    \/ \E t \in Tasks : \E exc \in ProviderFailures : ProviderFails(t, exc)
    \/ \E p \in Providers : Burst(p, MaxCalls(p))
    \/ TimerFires

SpecAI == InitAI /\ [][NextAI]_vars

-----------------------------------------------------------------------------
(* The scoring engine: one score_leads call *)

\* the lead lists of the model: n leads, taken in turn from the samples
LeadList(n, first) == [i \in 1..n |-> SampleLeads[((first + i - 2) % Len(SampleLeads)) + 1]]

InitEngine ==
    /\ InitLimiter
    /\ InitSide
    /\ npauses = 0
    /\ providers = <<"gemini", "openai">>
    /\ limiterFault = {}
    /\ offer \in Range(SampleOffers)
    /\ usage = NoUsage
    /\ ai = [t \in Tasks |-> NoCall]
    /\ leads \in {LeadList(n, first) : n \in 0..MaxLeads, first \in DOMAIN SampleLeads}
    /\ ai_service \in ClassifierPlans \cup {<<>>}
    /\ epc = "idle"
    /\ chunk = 1
    /\ batch = <<>>
    /\ results = <<>>
    /\ outOfOrder = FALSE

NextEngine ==
    \/ ScoreLeads
    \/ \E k \in 1..batch_size : TaskCompletes(k)
    \/ GatherReturns
    \/ GatherRaises
    \/ PauseOver

SpecEngine == InitEngine /\ [][NextEngine]_vars

-----------------------------------------------------------------------------
(* A scoring run: score_leads with the AIService as its classifier *)

\* f"{ai_reasoning}": the text of a value inside an f-string
Format(v) == IF v.type = "NoneType" THEN "None" ELSE v.val

\* the AIService object, as the value of ScoringEngine.ai_service
TheService == [kind |-> "service", intent |-> "", reasoning |-> "", exc |-> ""]

\* what analyze_lead_intent does for the engine: the pairs it returns, from a
\* reply or as the fallback, and the exceptions it could let through
ServiceOutcomes ==
    {Returns(ParsedReply[content].intent, Format(ParsedReply[content].reasoning)) : content \in Replies}
    \cup {Returns(Fallback.intent, Format(Fallback.reasoning))}
    \cup {Raises(exc) : exc \in ExceptionClasses}

\* how the call of task t ended, for score_single_lead
ServiceOutcome(t) ==
    IF pc[t] = "done" THEN Returns(ai[t].result.intent, Format(ai[t].result.reasoning))
    ELSE Raises(ai[t].raised)

\* score_single_lead for the leads and offers of the model and the outcomes of the service
ServiceScored ==
    [lead \in Range(SampleLeads), off \in Range(SampleOffers), outcome \in ServiceOutcomes |->
        ScoreSingleLead(lead, off, outcome)]

\* score_leads(leads, offer) is called by the /score endpoint: the tasks of
\* the first chunk are created; each is about to call analyze_lead_intent
RunScoreLeads ==
    /\ service.state = "ready"
    /\ epc = "idle"
    /\ IF Len(leads) = 0
       THEN /\ epc' = "returned"
            /\ UNCHANGED <<chunk, batch>>
       ELSE /\ chunk' = 1
            /\ batch' = [k \in 1..Min(batch_size, Len(leads)) |->
                            [state |-> "awaiting", exc |-> "",
                             rule |-> Scored[leads[k], offer, NoClassifier].rule,
                             ai |-> 0, result |-> NoResult]]
            /\ epc' = "gathering"
    /\ UNCHANGED <<leads, ai_service, results, outOfOrder, npauses>>
    /\ UNCHANGED <<now, pc, limiterVars, budgetVars, aiVars, sideVars>>

\* the task of lead t runs up to its first suspension inside analyze_lead_intent
TaskStarts(t) ==
    /\ epc = "gathering"
    /\ t \in DOMAIN batch
    /\ batch[t].state = "awaiting"
    /\ StartAnalyze(t)

\* analyze_lead_intent is over for the task of lead t: the rest of
\* score_single_lead, which writes nothing but the result of the task
TaskEnds(t) ==
    /\ epc = "gathering"
    /\ t \in DOMAIN batch
    /\ batch[t].state = "awaiting"
    /\ pc[t] \in {"done", "raised"}
    /\ batch' = [batch EXCEPT ![t] = ServiceScored[leads[chunk + t - 1], offer, ServiceOutcome(t)]]
    /\ outOfOrder' = (outOfOrder \/ \E j \in 1..(t - 1) : batch[j].state = "awaiting")
    /\ UNCHANGED <<leads, ai_service, epc, chunk, results, npauses>>
    /\ UNCHANGED <<now, pc, limiterVars, budgetVars, aiVars, sideVars>>

\* the routers module is imported: AIService() is still to be constructed,
\* the engine holds it, and the leads of the run are those of the tasks
InitRun ==
    /\ InitLimiter
    /\ settings \in KeySettings
    /\ service = [state |-> "unbuilt", gemini |-> "skipped", openai |-> "skipped"]
    /\ snap = NoSnapshot
    /\ lastOp = NoOp
    /\ ruleCall = NoRuleCall
    /\ remaining = NoQuery
    /\ providers = <<>>
    /\ limiterFault = {}
    /\ offer = SampleOffers[1]
    /\ usage = NoUsage
    /\ ai = [t \in Tasks |-> NoCall]
    /\ npauses = 0
    /\ leads \in {LeadList(n, 1) : n \in 0..NTasks}
    /\ ai_service = <<TheService>>
    /\ epc = "idle"
    /\ chunk = 1
    /\ batch = <<>>
    /\ results = <<>>
    /\ outOfOrder = FALSE

\* the replies of a run: JSON with and without a text, a text reply
RunReplies == {
    "{\"intent\": \"High\", \"reasoning\": \"Decision maker in the target industry\"}",
    "{\"intent\": 5, \"reasoning\": null}",
    "Intent is HIGH. The lead is a CEO." }

\* the end of the provider call of task t: a reply, a failure or the timeout
\* of asyncio.wait_for
ProviderCallEnds(t) ==
    \/ \E content \in RunReplies : ProviderReplies(t, content)
    \/ \E exc \in {"TimeoutError", "ConnectionError"} : ProviderFails(t, exc)

NextRun ==
    \/ \E gemini_ok \in BOOLEAN : \E openai_ok \in BOOLEAN : Construct(gemini_ok, openai_ok)
    \/ RunScoreLeads
    \/ \E t \in Tasks : TaskStarts(t)
    \/ \E t \in Tasks : ResumeAnalyze(t)
    \/ \E t \in Tasks : ProviderCallEnds(t)
    \/ \E t \in Tasks : TaskEnds(t)
    \/ GatherReturns
    \/ \E p \in Providers : Burst(p, MaxCalls(p))
    \/ TimerFires

\* the event loop runs every task that can run, every asyncio.sleep ends and
\* every provider call ends (asyncio.wait_for with settings.ai_timeout); the
\* other users of the limiter and the caller of the endpoint owe nothing
FairRun ==
    /\ WF_vars(TimerFires)
    /\ WF_vars(GatherReturns)
    /\ \A t \in Tasks :
           /\ WF_vars(TaskStarts(t))
           /\ WF_vars(ResumeAnalyze(t))
           /\ WF_vars(ProviderCallEnds(t))
           /\ WF_vars(TaskEnds(t))

SpecRun == InitRun /\ [][NextRun]_vars /\ FairRun

-----------------------------------------------------------------------------
(* The scoring rules, called one at a time *)

\* the role strings the rules are called with
RoleSamples ==
    {prefix \o title : prefix \in {"", "Senior ", "Junior "},
                       title \in {"CEO", "Chief Revenue Officer", "VP Sales", "Co-Founder",
                                  "Director of IT", "Head of Growth", "Owner", "Marketing Manager",
                                  "Team Lead", "Project Coordinator", "Support Specialist",
                                  "Software Engineer", "Analyst", "Intern", "accountant"}}

\* the lead industries and the target lists the rules are called with
IndustrySamples == {"software", "Software", "SaaS", "Technology", "Information Technology",
                    "B2B SaaS companies", "Fintech", "Banking", "E-commerce", "Retail",
                    "Online Retail", "Hospitality", "Healthcare", "agriculture"}

TargetSamples == {<<"software", "technology">>,
                  <<"B2B SaaS companies", "Mid-market technology companies", "fintech">>,
                  <<"software">>, <<"Retail">>, <<"banking", "payments">>, <<"Healthcare">>, <<>>}

CompleteLead == Lead("John CEO", "CEO", "TechCorp", "software", "SF", "Complete bio")

\* the lead with one field replaced
WithField(lead, field, value) == [lead EXCEPT ![field] = value]

LeadFields == {"name", "role", "company", "industry", "location", "linkedin_bio"}

\* the leads _score_completeness is called with: complete, one field empty or blank or padded
CompletenessSamples ==
    {CompleteLead}
    \cup {WithField(CompleteLead, field, value) : field \in LeadFields, value \in {"", "  ", " x "}}
    \cup {WithField(WithField(CompleteLead, "linkedin_bio", ""), "location", " ")}

\* the leads and offers _calculate_rule_score is called with
RuleLeadSamples ==
    {Lead("Lee Doe", role, "Acme", industry, "Leeds", bio) :
        role \in {"CEO", "Marketing Manager", "Senior Director", "Intern"},
        industry \in {"software", "SaaS", "Retail", "agriculture"},
        bio \in {"Complete bio", ""}}
    \cup {CompleteLead}

RuleOfferSamples ==
    Range(SampleOffers) \cup {[name |-> "Test Product", value_props |-> <<"value1">>,
                               ideal_use_cases |-> <<"software">>]}

\* what the rules return for the arguments of the model
RoleScores == [role \in RoleSamples |-> ScoreRole(role)]

IndustryScores ==
    [lead_industry \in IndustrySamples, target_industries \in TargetSamples |->
        ScoreIndustry(lead_industry, target_industries)]

CompletenessScores == [lead \in CompletenessSamples |-> ScoreCompleteness(lead)]

RuleScores == [lead \in RuleLeadSamples, off \in RuleOfferSamples |-> CalculateRuleScore(lead, off)]

\* _score_role(role) is called
CallScoreRole(role) ==
    /\ ruleCall' = [fn |-> "_score_role", lead |-> Lead("", role, "", "", "", ""), targets |-> <<>>,
                    score |-> RoleScores[role], breakdown |-> ""]
    /\ UNCHANGED <<now, pc, limiterVars, budgetVars, aiVars, engineVars, npauses>>
    /\ UNCHANGED <<settings, service, trackerVars, remaining>>

\* _score_industry(lead_industry, target_industries) is called
CallScoreIndustry(lead_industry, target_industries) ==
    /\ ruleCall' = [fn |-> "_score_industry", lead |-> Lead("", "", "", lead_industry, "", ""),
                    targets |-> target_industries,
                    score |-> IndustryScores[lead_industry, target_industries], breakdown |-> ""]
    /\ UNCHANGED <<now, pc, limiterVars, budgetVars, aiVars, engineVars, npauses>>
    /\ UNCHANGED <<settings, service, trackerVars, remaining>>

\* _score_completeness(lead) is called
CallScoreCompleteness(lead) ==
    /\ ruleCall' = [fn |-> "_score_completeness", lead |-> lead, targets |-> <<>>,
                    score |-> CompletenessScores[lead], breakdown |-> ""]
    /\ UNCHANGED <<now, pc, limiterVars, budgetVars, aiVars, engineVars, npauses>>
    /\ UNCHANGED <<settings, service, trackerVars, remaining>>

\* _calculate_rule_score(lead, offer) is called
CallCalculateRuleScore(lead, off) ==
    /\ ruleCall' = [fn |-> "_calculate_rule_score", lead |-> lead, targets |-> off.ideal_use_cases,
                    score |-> RuleScores[lead, off].score,
                    breakdown |-> RuleScores[lead, off].breakdown]
    /\ UNCHANGED <<now, pc, limiterVars, budgetVars, aiVars, engineVars, npauses>>
    /\ UNCHANGED <<settings, service, trackerVars, remaining>>

InitRules == InitRL

NextRules ==
    \/ \E role \in RoleSamples : CallScoreRole(role)
    \/ \E lead_industry \in IndustrySamples, target_industries \in TargetSamples :
          CallScoreIndustry(lead_industry, target_industries)
    \/ \E lead \in CompletenessSamples : CallScoreCompleteness(lead)
    \/ \E lead \in RuleLeadSamples, off \in RuleOfferSamples : CallCalculateRuleScore(lead, off)

SpecRules == InitRules /\ [][NextRules]_vars

-----------------------------------------------------------------------------
(* The usage tracker under arbitrary callers *)

\* the token counts log_usage is called with (50 is the default of output_tokens)
InputTokenSamples == {0, 120}
OutputTokenSamples == {0, 50}

\* dict.copy() is shallow: the dict get_stats returns has a failures count of
\* its own, and its "gemini" and "openai" entries are the very dicts of
\* _usage until reset_stats gives _usage new ones. What the holder of the
\* snapshot reads in it:
SnapshotView ==
    IF snap.shared THEN [usage EXCEPT !.failures = snap.own.failures] ELSE snap.own

\* the n-th call, with its arguments and the counters it found
Op(name, provider, input_tokens, output_tokens) ==
    [op |-> name, provider |-> provider, input_tokens |-> input_tokens,
     output_tokens |-> output_tokens, before |-> usage, n |-> lastOp.n + 1]

\* AIUsageTracker.log_usage(provider, input_tokens, output_tokens)
CallLogUsage(provider, input_tokens, output_tokens) ==
    /\ lastOp.n < MaxOps
    /\ usage' = LogUsage(usage, provider, input_tokens, output_tokens)
    /\ lastOp' = Op("log_usage", provider, input_tokens, output_tokens)
    /\ UNCHANGED <<snap, providers, limiterFault, offer, ai>>
    /\ UNCHANGED <<now, pc, limiterVars, budgetVars, engineVars, npauses, settings, service, ruleCall, remaining>>

\* AIUsageTracker.log_failure()
CallLogFailure ==
    /\ lastOp.n < MaxOps
    /\ usage' = LogFailure(usage)
    /\ lastOp' = Op("log_failure", "none", 0, 0)
    /\ UNCHANGED <<snap, providers, limiterFault, offer, ai>>
    /\ UNCHANGED <<now, pc, limiterVars, budgetVars, engineVars, npauses, settings, service, ruleCall, remaining>>

\* AIUsageTracker.get_stats(): the caller holds the copy from now on
GetStats ==
    /\ lastOp.n < MaxOps
    /\ snap' = [taken |-> TRUE, shared |-> TRUE, own |-> usage, expect |-> usage]
    /\ lastOp' = Op("get_stats", "none", 0, 0)
    /\ UNCHANGED <<usage, providers, limiterFault, offer, ai>>
    /\ UNCHANGED <<now, pc, limiterVars, budgetVars, engineVars, npauses, settings, service, ruleCall, remaining>>

\* AIUsageTracker.reset_stats(): _usage is a new dict of new dicts; a snapshot keeps the old ones
ResetStats ==
    /\ lastOp.n < MaxOps
    /\ usage' = NoUsage
    /\ snap' = IF snap.shared THEN [snap EXCEPT !.shared = FALSE, !.own = SnapshotView] ELSE snap
    /\ lastOp' = Op("reset_stats", "none", 0, 0)
    /\ UNCHANGED <<providers, limiterFault, offer, ai>>
    /\ UNCHANGED <<now, pc, limiterVars, budgetVars, engineVars, npauses, settings, service, ruleCall, remaining>>

\* the holder of the snapshot runs snapshot[provider]["calls"] = value
SnapshotSetCalls(provider, value) ==
    /\ lastOp.n < MaxOps
    /\ snap.taken
    /\ IF snap.shared
       THEN /\ usage' = [usage EXCEPT ![provider].calls = value]
            /\ snap' = [snap EXCEPT !.expect[provider].calls = value]
       ELSE /\ snap' = [snap EXCEPT !.own[provider].calls = value, !.expect[provider].calls = value]
            /\ UNCHANGED usage
    /\ lastOp' = Op("snapshot_set", provider, 0, 0)
    /\ UNCHANGED <<providers, limiterFault, offer, ai>>
    /\ UNCHANGED <<now, pc, limiterVars, budgetVars, engineVars, npauses, settings, service, ruleCall, remaining>>

\* the holder of the snapshot runs snapshot["failures"] = value
SnapshotSetFailures(value) ==
    /\ lastOp.n < MaxOps
    /\ snap.taken
    /\ snap' = [snap EXCEPT !.own.failures = value, !.expect.failures = value]
    /\ lastOp' = Op("snapshot_set", "none", 0, 0)
    /\ UNCHANGED <<usage, providers, limiterFault, offer, ai>>
    /\ UNCHANGED <<now, pc, limiterVars, budgetVars, engineVars, npauses, settings, service, ruleCall, remaining>>

InitTracker == InitRL

NextTracker ==
    \/ \E provider \in Providers, input_tokens \in InputTokenSamples, output_tokens \in OutputTokenSamples :
          CallLogUsage(provider, input_tokens, output_tokens)
    \/ CallLogFailure
    \/ GetStats
    \/ ResetStats
    \/ \E provider \in Providers : SnapshotSetCalls(provider, 0)
    \/ SnapshotSetFailures(0)

SpecTracker == InitTracker /\ [][NextTracker]_vars

-----------------------------------------------------------------------------
(* Claims about the classifier *)

Over(t) == pc[t] \in {"done", "raised"}

\* every configured provider was attempted by the call of t and every attempt failed
\* (there is no call before the service is constructed)
AllFailed(t) ==
    /\ service.state = "ready"
    /\ Len(ai[t].attempts) = Len(providers)
    /\ \A i \in DOMAIN ai[t].attempts : ai[t].attempts[i].outcome = "failed"

\* C2: when every provider attempt has failed, whatever failed (the rate
\* limiter included), the call returns the fixed fallback pair, and no call
\* ever ends with an exception.
C2_AllFailFallback ==
    \A t \in Tasks :
        /\ pc[t] # "raised"
        /\ AllFailed(t) =>
              /\ pc[t] = "done"
              /\ ai[t].result = [intent |-> "low",
                                 reasoning |-> PyStr("AI services unavailable - conservative scoring applied")]
              /\ ai[t].raised = ""

\* C2 witness: a call returned after the limiter raised for gemini and the
\* call of openai failed.
C2_Witness ==
    \E t \in Tasks :
        /\ providers = <<"gemini", "openai">>
        /\ limiterFault = {"gemini"}
        /\ pc[t] = "done"
        /\ AllFailed(t)

C9_FailureCounter ==
    usage.failures = Cardinality({t \in Tasks : pc[t] = "done" /\ AllFailed(t)})

\* C9 witness: one call ended after two failed providers, another got a reply.
C9_Witness ==
    \E t, u \in Tasks :
        /\ limiterFault = {}
        /\ pc[t] = "done" /\ AllFailed(t) /\ Len(ai[t].attempts) = 2
        /\ pc[u] = "done" /\ ~AllFailed(u)
        /\ usage.failures = 1

\* C10: every returned pair has an intent among high, medium, low and a
\* reasoning that is a non-empty string.
C10_CanonicalNonEmpty ==
    \A t \in Tasks :
        pc[t] = "done" =>
            /\ ai[t].result.intent \in {"high", "medium", "low"}
            /\ ai[t].result.reasoning.type = "str"
            /\ ai[t].result.reasoning.val # ""

\* what C11 says of a reply text: the fields of the object when the strict
\* JSON parse succeeds (nothing is said here of an intent field that is not a
\* string), the scan of the text and its first sentence when it fails
C11_Expected ==
    [content \in Replies |->
        LET text == Strip(content)
            data == JsonLoads(text)
            intent == DictGet(data.pairs, "intent", PyStr("Low"))
            reasoning == DictGet(data.pairs, "reasoning", PyStr("Analysis completed"))
        IN  IF ~data.ok
            THEN [any |-> FALSE, value |-> ValidIntent(ParseTextResponse(text))]
            ELSE IF intent.type # "str"
                 THEN [any |-> TRUE, value |-> ParseFailed]
                 ELSE [any |-> FALSE,
                       value |-> ValidIntent([intent |-> Lower(intent.val), reasoning |-> reasoning])]]

\* C11: the pair returned for a provider reply comes from the fields of the
\* JSON object when the reply parses as JSON, and otherwise from the scan of
\* the lowercased text for high, medium, low (default low) with the first
\* sentence as reasoning.
C11_JsonThenText ==
    \A t \in Tasks :
        LET at == ai[t].attempts
        IN  pc[t] = "done" /\ at # <<>> /\ at[Len(at)].outcome = "ok" =>
                \/ C11_Expected[at[Len(at)].reply].any
                \/ ai[t].result = C11_Expected[at[Len(at)].reply].value

-----------------------------------------------------------------------------
(* Claims about the rate limiter *)

\* the admissions of p that returned in the window of length 60 ending at clock value e
ReturnedIn(p, e) == {j \in DOMAIN admitted[p] : e - Window < admitted[p][j] /\ admitted[p][j] <= e}

\* C1: for every provider, the number of admissions that returned within any
\* trailing 60-unit window never exceeds the provider's ceiling.
C1_CeilingPerWindow ==
    \A p \in Providers : \A i \in DOMAIN admitted[p] :
        Cardinality(ReturnedIn(p, admitted[p][i])) <= MaxCalls(p)

\* C7: a request that finds the pruned window full suspends for 60 minus the
\* age (in whole units) of the oldest remaining entry; a request that finds
\* room does not suspend.
C7_WaitUntilOldestLeaves ==
    /\ lastCheck.full => lastCheck.sleep = WindowSeconds - Seconds(lastCheck.at - lastCheck.oldest)
    /\ (lastCheck.provider # "none" /\ ~lastCheck.full) => lastCheck.sleep = 0

\* C8: a step changes the window of one provider at most, the provider of the
\* call that takes the step, and a request for a provider whose pruned window
\* is below its ceiling returns at once whatever tasks wait on other providers.
C8_StepIndependent ==
    LET changed == {q \in Providers : calls'[q] # calls[q]}
        resumed == {t \in Tasks : pc[t] = "sleeping" /\ pc'[t] # "sleeping"}
        q == lastCheck'.provider
    IN  /\ Cardinality(changed) <= 1
        /\ nreq' # nreq =>
              /\ changed \subseteq {q}
              /\ Len(Prune(calls[q], now)) < MaxCalls(q) =>
                    /\ \A t \in Tasks : pc'[t] = "sleeping" => pc[t] = "sleeping"
                    /\ admitted'[q] = Append(admitted[q], now)
                    /\ calls'[q] = Append(Prune(calls[q], now), now)
        /\ \A t \in resumed : changed \subseteq {tprov[t]}

C8_Independent == [][C8_StepIndependent]_vars

\* C8 witness: a request for one provider was admitted at once while a task
\* was suspended in the backoff of the other provider.
C8_Witness ==
    /\ lastCheck.provider = "openai"
    /\ ~lastCheck.full
    /\ "gemini" \in lastCheck.waiting
    /\ Sleepers("gemini") # {}
    /\ Len(calls["openai"]) > 0

-----------------------------------------------------------------------------
(* Claims about the scoring engine *)

\* what score_single_lead computes for the i-th lead of the list
ResultFor(i) == Scored[leads[i], offer, OutcomeOf(i)].result

\* C4: whatever the order in which the tasks of a chunk complete, the list
\* score_leads returns is as long as the lead list and its i-th element is
\* the result computed for the i-th lead.
C4_ResultsInInputOrder ==
    epc = "returned" =>
        /\ Len(results) = Len(leads)
        /\ \A i \in DOMAIN leads :
              /\ results[i] = ResultFor(i)
              /\ results[i].name = leads[i].name

\* a list of more than one chunk whose tasks completed out of order, with
\* results that differ from lead to lead
C4_Witness ==
    /\ epc = "returned"
    /\ ai_service # <<>>
    /\ Len(leads) > batch_size
    /\ outOfOrder
    /\ results[1] # results[2]
    /\ results[Len(leads)] # results[1]

\* the classifier is absent or raises for the i-th lead
Unavailable(i) == OutcomeOf(i).kind \in {"none", "raise"}

FallbackTexts == {"AI service unavailable - conservative scoring applied",
                  "AI analysis failed - conservative scoring applied"}

\* C5: when no classifier is injected or its call raises, the task of the lead
\* ends with a result (no exception leaves score_single_lead) that counts 10 AI
\* points, has intent Low and carries a fallback reasoning text; score_leads
\* never raises because of such leads, and when it returns there is a result
\* for every lead.
C5_ConservativeFallback ==
    /\ \A k \in DOMAIN batch :
          Unavailable(chunk + k - 1) /\ batch[k].state # "awaiting" =>
              /\ batch[k].state = "done"
              /\ batch[k].ai = 10
              /\ batch[k].result.intent = "Low"
              /\ batch[k].result.score = Min(batch[k].rule + 10, 100)
              /\ \E text \in FallbackTexts : EndsWith(batch[k].result.reasoning, ". AI: " \o text)
    /\ epc = "raised" => \E k \in DOMAIN batch :
                            batch[k].state = "raised" /\ ~Unavailable(chunk + k - 1)
    /\ epc = "returned" => Len(results) = Len(leads)

\* score_leads returned for a list of more than one chunk although every
\* call of the classifier raised
C5_Witness ==
    /\ epc = "returned"
    /\ ai_service # <<>>
    /\ Len(leads) > batch_size
    /\ \A i \in DOMAIN leads : OutcomeOf(i).kind = "raise"
    /\ \A i \in DOMAIN leads : results[i].intent = "Low"

\* C6: for every task that has ended, the rule component and the AI component
\* are each between 0 and 50, and the score of a result is min(rule + AI, 100),
\* between 0 and 100.
C6_ScoreBounds ==
    \A k \in DOMAIN batch :
        batch[k].state # "awaiting" =>
            /\ batch[k].rule \in 0..50
            /\ batch[k].ai \in 0..50
            /\ batch[k].state = "done" =>
                  /\ batch[k].result.score = Min(batch[k].rule + batch[k].ai, 100)
                  /\ batch[k].result.score \in 0..100

\* a lead that reaches the cap (50 + 50) and a lead scored on the fallback
C6_Witness ==
    /\ \E k \in DOMAIN batch : batch[k].state = "done" /\ batch[k].rule = 50
                               /\ batch[k].ai = 50 /\ batch[k].result.score = 100
    /\ \E k \in DOMAIN batch : batch[k].state = "done" /\ batch[k].ai = 10
                               /\ batch[k].result.score = batch[k].rule + 10

-----------------------------------------------------------------------------
(* Claims about the scoring rules *)

\* C12: the role score is 20 when the lowercased role contains a
\* decision-maker keyword, otherwise 10 when it contains an influencer
\* keyword, otherwise 0; with keywords of both kinds it is 20.
C12_RoleScore ==
    ruleCall.fn = "_score_role" =>
        LET role == Lower(ruleCall.lead.role)
            decides == \E keyword \in DECISION_MAKERS : Contains(role, keyword)
            influences == \E keyword \in INFLUENCERS : Contains(role, keyword)
        IN  /\ decides => ruleCall.score = 20
            /\ ~decides /\ influences => ruleCall.score = 10
            /\ ~decides /\ ~influences => ruleCall.score = 0

\* a role with keywords of both kinds (senior, director) was scored 20
C12_Witness ==
    /\ ruleCall.fn = "_score_role"
    /\ ruleCall.lead.role = "Senior Director of IT"
    /\ ruleCall.score = 20

C13_IsLetter(c) == IsUpper(c) \/ IsLower(c)

\* the term occurs in s as a word or phrase of its own, not inside a longer word
C13_ContainsWord(s, term) ==
    \E i \in 1..(Len(s) - Len(term) + 1) :
        /\ SubSeq(s, i, i + Len(term) - 1) = term
        /\ i = 1 \/ ~C13_IsLetter(Char(s, i - 1))
        /\ i + Len(term) - 1 = Len(s) \/ ~C13_IsLetter(Char(s, i + Len(term)))

\* the industry belongs to the related-industry group: it names one of its terms
C13_InGroup(industry, group) == \E term \in group : C13_ContainsWord(Lower(industry), term)

\* C13: the industry score is 20 when the lead industry equals a target
\* industry ignoring case, otherwise 10 when the lead industry and a target
\* industry belong to the same related-industry group, otherwise 0.
C13_IndustryScore ==
    ruleCall.fn = "_score_industry" =>
        LET industry == ruleCall.lead.industry
            targets == ruleCall.targets
            exact == \E i \in DOMAIN targets : Lower(targets[i]) = Lower(industry)
            related == \E i \in DOMAIN targets :
                          \E group \in {SAAS_RELATED, FINTECH_RELATED, ECOMMERCE_RELATED} :
                              C13_InGroup(industry, group) /\ C13_InGroup(targets[i], group)
        IN  ruleCall.score = IF exact THEN 20 ELSE IF related THEN 10 ELSE 0

\* C14: the completeness score is 10 exactly when each of the six fields is
\* non-empty after trimming, and 0 otherwise.
C14_Completeness ==
    ruleCall.fn = "_score_completeness" =>
        LET complete == \A field \in LeadFields : Strip(ruleCall.lead[field]) # ""
        IN  ruleCall.score = IF complete THEN 10 ELSE 0

\* a lead with a field of blanks only was scored 0
C14_Witness ==
    /\ ruleCall.fn = "_score_completeness"
    /\ ruleCall.lead.location = "  "
    /\ ruleCall.lead.linkedin_bio # ""
    /\ ruleCall.score = 0

\* C15: the rule score is the role score plus the industry score plus the
\* completeness score, the breakdown reports the three of them, and a
\* decision maker with an exact industry match and complete data gets 50
\* with components 20, 20 and 10.
C15_RuleScore ==
    ruleCall.fn = "_calculate_rule_score" =>
        LET role_score == ScoreRole(ruleCall.lead.role)
            industry_score == ScoreIndustry(ruleCall.lead.industry, ruleCall.targets)
            completeness_score == ScoreCompleteness(ruleCall.lead)
        IN  /\ ruleCall.score = role_score + industry_score + completeness_score
            /\ Contains(ruleCall.breakdown, "Role: " \o ToString(role_score) \o "pts")
            /\ Contains(ruleCall.breakdown, "Industry: " \o ToString(industry_score) \o "pts")
            /\ Contains(ruleCall.breakdown, "Completeness: " \o ToString(completeness_score) \o "pts")
            /\ ruleCall.lead = CompleteLead /\ ruleCall.targets = <<"software">> =>
                  /\ ruleCall.score = 50
                  /\ ruleCall.breakdown = "Role: 20pts | Industry: 20pts | Completeness: 10pts"

\* the lead of the example was scored 50
C15_Witness ==
    /\ ruleCall.fn = "_calculate_rule_score"
    /\ ruleCall.lead = CompleteLead
    /\ ruleCall.targets = <<"software">>
    /\ ruleCall.score = 50

-----------------------------------------------------------------------------
(* Claims about the usage tracker *)

\* C16: log_usage(p, input_tokens, output_tokens) adds 1 to the calls of p
\* and input_tokens + output_tokens to the tokens of p, adds the cost of the
\* tokens to the estimated cost when p is openai and leaves it alone when not,
\* and changes neither the counters of the other provider nor the failures.
C16_LogUsageFrame ==
    lastOp.op = "log_usage" =>
        LET p == lastOp.provider
            other == CHOOSE q \in Providers : q # p
        IN  /\ usage[p].calls = lastOp.before[p].calls + 1
            /\ usage[p].tokens = lastOp.before[p].tokens + lastOp.input_tokens + lastOp.output_tokens
            /\ usage[other] = lastOp.before[other]
            /\ usage.failures = lastOp.before.failures
            /\ usage.openai.estimated_cost =
                  IF p = "openai"
                  THEN lastOp.before.openai.estimated_cost + 15 * lastOp.input_tokens + 60 * lastOp.output_tokens
                  ELSE lastOp.before.openai.estimated_cost

\* an openai call with tokens was logged after a gemini call and a failure
C16_Witness ==
    /\ lastOp.op = "log_usage"
    /\ lastOp.provider = "openai"
    /\ lastOp.input_tokens > 0 /\ lastOp.output_tokens > 0
    /\ usage.openai.estimated_cost > 0
    /\ usage.gemini.calls > 0
    /\ usage.failures > 0

\* C17: what the holder of a snapshot reads in it is what it held when
\* get_stats returned, but for the holder's own changes, whatever log_usage,
\* log_failure and reset_stats calls came later; and a change of the snapshot
\* by its holder leaves the counters of the tracker as they were.
C17_SnapshotImmutable ==
    /\ snap.taken => SnapshotView = snap.expect
    /\ lastOp.op = "snapshot_set" => usage = lastOp.before

-----------------------------------------------------------------------------
(* Claims about the monitoring query *)

\* k calls of the provider of the latest query have returned at once since
\* the query, at the instant of the query, and nothing else touched its window
C18_Fresh(k) ==
    /\ remaining.provider \in Providers
    /\ remaining.at = now
    /\ Prune(calls[remaining.provider], now) = Prune(remaining.window, now) \o Repeat(k, now)

\* C18: get_remaining_calls(p) suspends no task and changes no window; it
\* returns r = max(0, ceiling(p) - calls of p recorded less than 60 s ago),
\* never negative; and of the check_rate_limit(p) calls made at once after it,
\* the first r return without suspending and the next one suspends.
C18_StepRemaining ==
    /\ remaining' # remaining =>
          LET p == remaining'.provider
              young == {i \in DOMAIN calls[p] : now - calls[p][i] < WindowSeconds * TicksPerSecond}
          IN  /\ calls' = calls /\ pc' = pc /\ now' = now
              /\ remaining'.value >= 0
              /\ remaining'.value = Max(0, MaxCalls(p) - Cardinality(young))
    /\ nreq' # nreq =>
          \A k \in 0..MaxCalls(lastCheck'.provider) :
              C18_Fresh(k) /\ lastCheck'.provider = remaining.provider =>
                  /\ k < remaining.value => \A t \in Tasks : pc'[t] = "sleeping" => pc[t] = "sleeping"
                  /\ k >= remaining.value => \E t \in Tasks : pc'[t] = "sleeping" /\ pc[t] # "sleeping"

C18_Remaining == [][C18_StepRemaining]_vars

\* the query returned 2, two calls returned at once and the third is suspended
C18_Witness ==
    /\ remaining.provider = "gemini"
    /\ remaining.value = 2
    /\ C18_Fresh(2)
    /\ \E t \in Tasks : pc[t] = "sleeping" /\ tprov[t] = "gemini" /\ tnow[t] = now

-----------------------------------------------------------------------------
(* Claims about the construction of the classifier *)

\* the providers whose key is set and whose setup succeeded
C19_Configured ==
    {p \in Providers : (IF p = "gemini" THEN service.gemini ELSE service.openai) = "ok"}

\* a key that is not set is skipped, a key that is set is tried
C19_Outcomes ==
    /\ (service.gemini = "skipped") <=> (settings.gemini_api_key = "")
    /\ (service.openai = "skipped") <=> (settings.openai_api_key = "")

\* C19: AIService() fails with a configuration error exactly when no provider ends
\* up configured (no API key is set, or the setup of every provider with a key
\* failed); otherwise it succeeds with a provider list that is not empty and that
\* holds the providers set up successfully, gemini first. No method of an
\* object whose construction failed is ever called.
C19_Construction ==
    service.state # "unbuilt" =>
        /\ C19_Outcomes
        /\ (service.state = "config_error") <=> (C19_Configured = {})
        /\ settings.gemini_api_key = "" /\ settings.openai_api_key = ""
               => service.state = "config_error"
        /\ service.state = "ready" =>
               /\ providers # <<>>
               /\ providers \in ProviderConfigs
               /\ Range(providers) = C19_Configured
        /\ service.state = "config_error" =>
               \A t \in Tasks : pc[t] = "idle" /\ ai[t] = NoCall

\* C19 witness: a key is set, the setup of its provider failed, and the
\* construction failed with the configuration error.
C19_Witness ==
    /\ service.state = "config_error"
    /\ settings.gemini_api_key # ""
    /\ service.gemini = "failed"

-----------------------------------------------------------------------------
(* Claims about the chunks of score_leads *)

\* the number of the chunk that starts at lead i, counted from 0
C20_ChunkNo(i) == (i - 1) \div batch_size

\* the tasks of the current chunk that are still in flight
C20_InFlight == {k \in DOMAIN batch : batch[k].state = "awaiting"}

\* the chunks are leads[0:10], leads[10:20], ...; the results of all earlier
\* chunks are there while one is scored; a pause was taken between each two
\* consecutive chunks and none after the last
C20_State ==
    /\ (chunk - 1) % batch_size = 0
    /\ Cardinality(C20_InFlight) <= batch_size
    /\ epc \in {"gathering", "raised"} =>
           /\ Len(batch) = Min(batch_size, Len(leads) - chunk + 1)
           /\ Len(batch) >= 1
           /\ Len(results) = chunk - 1
           /\ npauses = C20_ChunkNo(chunk)
    /\ epc = "pausing" =>
           /\ C20_InFlight = {}
           /\ Len(results) = chunk - 1 + batch_size
           /\ Len(results) < Len(leads)
           /\ npauses = C20_ChunkNo(chunk) + 1
    /\ epc = "returned" =>
           /\ C20_InFlight = {}
           /\ Len(results) = Len(leads)
           /\ chunk - 1 + batch_size >= Len(leads)
           /\ npauses = C20_ChunkNo(chunk)

\* a chunk starts only when every task of the chunk before it is done, after
\* a pause, with all its tasks at once; score_leads returns from the gather of
\* the last chunk, not from a pause
C20_Step ==
    /\ (epc' = "gathering" /\ epc # "gathering") =>
           /\ epc \in {"idle", "pausing"}
           /\ \A k \in DOMAIN batch : batch[k].state = "done"
           /\ chunk' = IF epc = "idle" THEN 1 ELSE chunk + batch_size
           /\ Len(results) = chunk' - 1
           /\ Len(batch') = Min(batch_size, Len(leads) - chunk' + 1)
    /\ chunk' # chunk => epc = "pausing"
    /\ epc' = "pausing" => epc = "gathering" /\ npauses' = npauses + 1
    /\ epc' = "returned" => epc \in {"idle", "gathering", "returned"} /\ npauses' = npauses

\* C20: score_leads scores the leads in consecutive chunks of 10; the tasks of
\* a chunk are all started together and run concurrently; no task of the next
\* chunk starts before every task of the chunk is done, so that at most 10
\* tasks are in flight; and it pauses between two consecutive chunks but not
\* after the last one.
C20_Chunks == [](C20_State) /\ [][C20_Step]_vars

\* C20 witness: a list of 11 leads was scored with a classifier, the tasks of
\* the first chunk ending out of order: two chunks, one pause.
C20_Witness ==
    /\ epc = "returned"
    /\ Len(leads) = 11
    /\ ai_service # <<>>
    /\ outOfOrder
    /\ chunk = 11
    /\ npauses = 1

-----------------------------------------------------------------------------
(* Claims about the timestamps of the windows *)

\* how many entries of the sequence s equal x
C21_Count(s, x) == Cardinality({i \in DOMAIN s : s[i] = x})

\* C21: the entry recorded for an admitted call is the time at which
\* check_rate_limit returned: every admission that returned less than 60 units
\* ago is still in the window of its provider, under its time of return.
C21_RecordedAtReturn ==
    \A p \in Providers : \A i \in DOMAIN admitted[p] :
        now - admitted[p][i] < Window =>
            C21_Count(calls[p], admitted[p][i]) >= C21_Count(admitted[p], admitted[p][i])

-----------------------------------------------------------------------------
(* Claims about the usage counters of concurrent calls *)

\* the calls that returned the reply of provider p
C22_ReturnedBy(p) ==
    {t \in Tasks : /\ pc[t] = "done"
                   /\ ai[t].attempts # <<>>
                   /\ ai[t].attempts[Len(ai[t].attempts)].outcome = "ok"
                   /\ ai[t].attempts[Len(ai[t].attempts)].provider = p}

\* the tokens of the replies returned to the calls of the set S
RECURSIVE C22_Tokens(_)
C22_Tokens(S) ==
    IF S = {} THEN 0
    ELSE LET t == CHOOSE x \in S : TRUE
         IN  PromptLength[LeadOf(t), offer]
             + ReplyLength[ai[t].attempts[Len(ai[t].attempts)].reply]
             + C22_Tokens(S \ {t})

\* C22: since the last reset, calls(gemini) + calls(openai) + failures is the
\* number of completed analyze_lead_intent calls, concurrent ones included:
\* the call count of a provider is the number of calls that returned its
\* reply, and a failed attempt records neither a call nor tokens.
C22_UsageAccounting ==
    /\ usage.gemini.calls + usage.openai.calls + usage.failures
           = Cardinality({t \in Tasks : pc[t] = "done"})
    /\ \A p \in Providers :
           /\ usage[p].calls = Cardinality(C22_ReturnedBy(p))
           /\ usage[p].tokens = C22_Tokens(C22_ReturnedBy(p))
    /\ \A t \in Tasks : \A i \in DOMAIN ai[t].attempts :
           (ai[t].attempts[i].outcome = "ok") => (i = Len(ai[t].attempts) /\ pc[t] = "done")

\* C22 witness: two concurrent calls are over, one with the reply of gemini,
\* the other with the reply of openai after its gemini attempt failed.
C22_Witness ==
    \E t, u \in Tasks :
        /\ t \in C22_ReturnedBy("gemini")
        /\ u \in C22_ReturnedBy("openai")
        /\ Len(ai[u].attempts) = 2
        /\ ai[u].attempts[1].outcome = "failed"
        /\ usage.gemini.calls = 1
        /\ usage.openai.calls = 1
        /\ usage.failures = 0

-----------------------------------------------------------------------------
(* Claims about the intent of a scored lead *)

\* C23: whatever intent string the injected classifier returns (any letter
\* case, strings outside high, medium and low included), the task of the lead
\* ends with a result whose intent is High, Medium or Low and agrees with the
\* AI points counted in its score (High 50, Medium 30, Low 10).
C23_IntentAgreesWithPoints ==
    \A k \in DOMAIN batch :
        (batch[k].state # "awaiting" /\ OutcomeOf(chunk + k - 1).kind = "return") =>
            /\ batch[k].state = "done"
            /\ batch[k].result.intent \in IntentLevel
            /\ batch[k].ai = AI_INTENT_SCORES(Lower(batch[k].result.intent))

-----------------------------------------------------------------------------
(* Claims about the termination of a scoring run *)

\* every backoff is between 1 and 60 units; a call is admitted and attempted
\* once per provider at most; no call and no task ends with an exception
C24_Bounded ==
    /\ lastCheck.full => (lastCheck.sleep >= 1 /\ lastCheck.sleep <= WindowSeconds)
    /\ \A t \in Tasks :
           /\ tsleep[t] <= WindowSeconds
           /\ pc[t] = "sleeping" => tsleep[t] >= 1
           /\ pc[t] # "raised"
           /\ Len(ai[t].started) <= Len(providers)
           /\ Len(ai[t].attempts) <= Len(ai[t].started)
           /\ \A i, j \in DOMAIN ai[t].started :
                  ai[t].started[i] = ai[t].started[j] => i = j
    /\ \A k \in DOMAIN batch : batch[k].state # "raised"

\* C24: every scoring run terminates. Each backoff of the rate limiter is a
\* wait of 1 to 60 units, each provider call ends, so every
\* analyze_lead_intent call that has begun returns, after one admission and
\* one attempt per provider at most, and a score_leads call that has begun
\* returns the results of all its leads.
C24_RunTerminates ==
    /\ []C24_Bounded
    /\ \A t \in Tasks : (pc[t] \in {"sleeping", "calling"}) ~> (pc[t] = "done")
    /\ (epc = "gathering") ~> (epc = "returned" /\ Len(results) = Len(leads))

\* C24 witness: a run of two leads returned; both calls found the window of
\* gemini full and waited 60 units, and one ended with the fallback.
C24_Witness ==
    /\ epc = "returned"
    /\ Len(leads) = 2
    /\ Len(results) = 2
    /\ lastCheck.full
    /\ lastCheck.sleep = WindowSeconds
    /\ usage.failures = 1
    /\ now > 0

====
